---- MODULE Spec2Model ----
(***************************************************************************)
(* ScrollManager of the portfolio site: active-section tracking by an      *)
(* IntersectionObserver, nav-link clicks, URL-fragment changes, and the    *)
(* animation-frame and timer callbacks these schedule.                     *)
(*                                                                         *)
(* Strings are sequences of tokens, so that `#${id}`, href.substring(1),   *)
(* href.startsWith('#') and hash.length > 1 are computed, not assumed:     *)
(*   "#about"  is  <<"#", "about">>,   ""  is  <<>>,   "cv.pdf" is         *)
(*   <<"cv.pdf">>.  An element id is the sequence after the "#".           *)
(*                                                                         *)
(* Time is counted in units of 100 ms.  An animation frame is shorter than *)
(* one unit: time does not advance while a frame callback or a hashchange  *)
(* event is pending (the page is in the foreground).                       *)
(*                                                                         *)
(* FormManager, the contact form, follows the ScrollManager and has its    *)
(* own specification, SpecForm, with time in units of 10 s.  ProjectModal, *)
(* the project dialog, has SpecModal, with time in units of 100 ms.  Each  *)
(* component's specifications leave the others as their constructors made  *)
(* them.                                                                   *)
(***************************************************************************)
EXTENDS Integers, Sequences, FiniteSets, TLC

VARIABLES
    sections,                     \* this.sections: ids of section[id], document order
    phase,                        \* "constructed" | "running" | "cleaned"
    activeSection,                \* this.activeSection
    isScrollingProgrammatically,  \* this.isScrollingProgrammatically
    scrollTimeout,                \* this.scrollTimeout: 0 is null, else a timer id
    intersectingSections,         \* the observer's Map, in insertion order
    navActive,                    \* 'active' class of each .nav-link
    mobileActive,                 \* 'active' class of each .mobile-menu__link
    urlHash,                      \* window.location.hash
    rafQueue,                     \* requestAnimationFrame callbacks not yet run
    inFrame,                      \* callbacks of the running frame still to run
    timers,                       \* pending setTimeout callbacks
    lastScroll,                   \* element of the last window.scrollTo
    navCount,                     \* timer ids handed out so far
    hashChangePending,            \* a hashchange event is waiting for dispatch
    loadPending,                  \* the window load event has not fired yet
    skipped,                      \* history, kept by SpecRec only: a delivery was
                                  \* discarded in this suppression window
    historyLength,                \* window.history.length
    \* FormManager (ASSETS/js/modules/FormManager.js)
    formPhase,                    \* "constructed" | "ready" (init has found the form)
    fields,                       \* each input: "empty" | "invalid" | "valid"
    botcheck,                     \* the honeypot checkbox is checked
    online,                       \* navigator.onLine
    formEnabled,                  \* submit button and inputs are not disabled
    request,                      \* the fetch: "none" | "sent" | "headers"
    abortLeft,                    \* time left on the abort timer, -1 without one
    lastFormSubmit,               \* localStorage item 'lastFormSubmit', <<>> is null
    now,                          \* Date.now()
    posts,                        \* POST requests issued so far
    notification,                 \* the notification shown last
    \* ProjectModal (ASSETS/js/modules/ProjectModal.js)
    isOpen,                       \* this.isOpen
    overlay,                      \* this.overlay exists (createModalStructure ran)
    scrollLock,                   \* 'modal-open' on html and body, overflow hidden
    overlayActive,                \* 'active' class of the overlay
    modalFrames,                  \* requestAnimationFrame callbacks not yet run
    unlockTimers,                 \* time left on each pending 200 ms timer, oldest first
    modalCalls                    \* open and close calls so far

scrollVars == <<sections, phase, activeSection, isScrollingProgrammatically,
                scrollTimeout, intersectingSections, navActive, mobileActive,
                urlHash, rafQueue, inFrame, timers, lastScroll, navCount,
                hashChangePending, loadPending, skipped, historyLength>>

formVars == <<formPhase, fields, botcheck, online, formEnabled, request,
              abortLeft, lastFormSubmit, now, posts, notification>>

modalVars == <<isOpen, overlay, scrollLock, overlayActive, modalFrames,
               unlockTimers, modalCalls>>

vars == <<scrollVars, formVars, modalVars>>

-----------------------------------------------------------------------------
(* Bounds of the model *)

\* explicit navigations (clicks and hash changes that find their element)
MaxNav == 2

\* entries of the session history that are followed
MaxHistory == 2

\* how long the form is followed, in units of 10 s, and how many POSTs
MaxTime == 5
MaxPosts == 6

\* open and close calls of the project dialog
MaxModalCalls == 5

(* Program constants, in units of 100 ms *)
RetryDelay1 == 1
RetryDelay2 == 3
ResetDelay == 15

-----------------------------------------------------------------------------
(* The document *)

EmptyString == <<>>

home == <<"home">>
about == <<"about">>

\* the page's sections, and the page without any
AllSections == <<home, about>>
SectionLists == {<<>>, AllSections}

\* elements with an id that are not section[id]
OtherElementIds == {<<"contactForm">>}

TemplateHash(id) == <<"#">> \o id

\* hrefs of the .nav-link elements and of the .mobile-menu__link elements
NavLinks == <<TemplateHash(home), TemplateHash(about)>>
MobileNavLinks ==
    <<TemplateHash(home), TemplateHash(about), <<"cv.pdf">>>>
LogoLink == TemplateHash(home)

\* every href a click handler is bound to
CombinedLinks ==
    {NavLinks[i] : i \in DOMAIN NavLinks}
        \cup {MobileNavLinks[i] : i \in DOMAIN MobileNavLinks}
        \cup {LogoLink}

\* fragments the address bar can be given
Fragments ==
    {EmptyString, TemplateHash(home), TemplateHash(about),
     TemplateHash(<<"contactForm">>), TemplateHash(<<"nowhere">>)}

SectionIds(secs) == {secs[i] : i \in DOMAIN secs}

\* document.getElementById(id) # null
GetElementById(secs, id) == id \in SectionIds(secs) \cup OtherElementIds

StartsWithHash(href) == Len(href) > 0 /\ href[1] = "#"

Substring1(s) == Tail(s)

-----------------------------------------------------------------------------
(* FormManager after its constructor; the ScrollManager specifications leave
   it there *)

\* Date.now().toString() and parseInt of it; null is <<>>
NumberToString(n) == <<n>>
ParseInt(s) == s[1]

\* the inputs of the form that take part in validation
Inputs == <<"name", "message">>

\* ProjectModal after its constructor
ModalConstructed ==
    /\ isOpen = FALSE
    /\ overlay = FALSE
    /\ scrollLock = FALSE
    /\ overlayActive = FALSE
    /\ modalFrames = <<>>
    /\ unlockTimers = <<>>
    /\ modalCalls = 0

FormConstructed ==
    /\ formPhase = "constructed"
    /\ fields = [i \in DOMAIN Inputs |-> "empty"]
    /\ botcheck = FALSE
    /\ online = TRUE
    /\ formEnabled = TRUE
    /\ request = "none"
    /\ abortLeft = -1
    /\ lastFormSubmit = <<>>
    /\ now = 0
    /\ posts = 0
    /\ notification = "none"

-----------------------------------------------------------------------------
(* The component's state as one value, for the handlers below *)

St ==
    [sections |-> sections,
     activeSection |-> activeSection,
     isScrollingProgrammatically |-> isScrollingProgrammatically,
     scrollTimeout |-> scrollTimeout,
     intersectingSections |-> intersectingSections,
     navActive |-> navActive,
     mobileActive |-> mobileActive,
     urlHash |-> urlHash,
     rafQueue |-> rafQueue,
     timers |-> timers,
     lastScroll |-> lastScroll,
     navCount |-> navCount,
     historyLength |-> historyLength]

Commit(r) ==
    /\ activeSection' = r.activeSection
    /\ isScrollingProgrammatically' = r.isScrollingProgrammatically
    /\ scrollTimeout' = r.scrollTimeout
    /\ intersectingSections' = r.intersectingSections
    /\ navActive' = r.navActive
    /\ mobileActive' = r.mobileActive
    /\ urlHash' = r.urlHash
    /\ rafQueue' = r.rafQueue
    /\ timers' = r.timers
    /\ lastScroll' = r.lastScroll
    /\ navCount' = r.navCount
    /\ sections' = r.sections
    /\ historyLength' = r.historyLength
    /\ UNCHANGED <<formVars, modalVars>>

Timer(kind, id, delay, target) ==
    [kind |-> kind, id |-> id, delay |-> delay, left |-> delay, target |-> target]

Frame(kind, id, target, href) ==
    [kind |-> kind, id |-> id, target |-> target, href |-> href]

ResetKinds == {"clickReset", "hashReset"}

\* faulty variant: the timer keeps running
ClearTimeout_keep(ts, id) == ts

\* clearTimeout(this.scrollTimeout): only reset timers are ever stored there
ClearTimeout(ts, id) == {t \in ts : ~(t.kind \in ResetKinds /\ t.id = id)}

-----------------------------------------------------------------------------
(* history.replaceState and updateActiveNav *)

\* faulty variant: history.pushState, a new entry for the URL
ReplaceState_push(st, url) ==
    [st EXCEPT !.urlHash = url, !.historyLength = @ + 1]

\* history.replaceState(null, null, url): the current entry gets the URL
ReplaceState(st, url) ==
    [st EXCEPT !.urlHash = url]

\* faulty variant: classList.add on the match, the other links left as they are
updateActiveNav_addOnly(st) ==
    LET currentSection ==
            IF st.activeSection # EmptyString THEN st.activeSection
            ELSE IF Len(st.sections) > 0 THEN st.sections[1]
            ELSE EmptyString
        targetHash == TemplateHash(currentSection)
    IN  IF currentSection = EmptyString THEN st
        ELSE [st EXCEPT
                !.navActive =
                    [i \in DOMAIN NavLinks |-> @[i] \/ NavLinks[i] = targetHash],
                !.mobileActive =
                    [i \in DOMAIN MobileNavLinks |-> @[i] \/ MobileNavLinks[i] = targetHash]]

\* faulty variant: the mobile-menu links are left as they are
updateActiveNav_desktopOnly(st) ==
    LET currentSection ==
            IF st.activeSection # EmptyString THEN st.activeSection
            ELSE IF Len(st.sections) > 0 THEN st.sections[1]
            ELSE EmptyString
        targetHash == TemplateHash(currentSection)
    IN  IF currentSection = EmptyString THEN st
        ELSE [st EXCEPT
                !.navActive = [i \in DOMAIN NavLinks |-> NavLinks[i] = targetHash]]

updateActiveNav(st) ==
    LET currentSection ==
            IF st.activeSection # EmptyString THEN st.activeSection
            ELSE IF Len(st.sections) > 0 THEN st.sections[1]
            ELSE EmptyString
        targetHash == TemplateHash(currentSection)
    IN  IF currentSection = EmptyString THEN st
        ELSE [st EXCEPT
                !.navActive = [i \in DOMAIN NavLinks |-> NavLinks[i] = targetHash],
                !.mobileActive =
                    [i \in DOMAIN MobileNavLinks |-> MobileNavLinks[i] = targetHash]]

-----------------------------------------------------------------------------
(* handleNavClick: the click handler of every nav, mobile-menu and logo link *)

\* faulty variant: the outstanding reset timer is not cleared
handleNavClick_noClear(st, href) ==
    IF ~StartsWithHash(href) THEN st
    ELSE
    LET sectionId == Substring1(href) IN
    IF ~GetElementById(st.sections, sectionId) THEN st
    ELSE
    LET s1 == updateActiveNav([st EXCEPT !.activeSection = sectionId])
        id == st.navCount + 1
    IN  [s1 EXCEPT
            !.isScrollingProgrammatically = TRUE,
            !.rafQueue = Append(@, Frame("clickScroll", id, sectionId, href)),
            !.timers = @ \cup {Timer("clickReset", id, ResetDelay, EmptyString)},
            !.scrollTimeout = id,
            !.navCount = id]

\* faulty variant: the element named by the href is not looked up
handleNavClick_noLookup(st, href) ==
    IF ~StartsWithHash(href) THEN st
    ELSE
    LET sectionId == Substring1(href)
        s1 == updateActiveNav([st EXCEPT !.activeSection = sectionId])
        id == st.navCount + 1
        cleared == IF s1.scrollTimeout # 0
                   THEN ClearTimeout(s1.timers, s1.scrollTimeout)
                   ELSE s1.timers
    IN  [s1 EXCEPT
            !.isScrollingProgrammatically = TRUE,
            !.rafQueue = Append(@, Frame("clickScroll", id, sectionId, href)),
            !.timers = cleared \cup {Timer("clickReset", id, ResetDelay, EmptyString)},
            !.scrollTimeout = id,
            !.navCount = id]

\* faulty variant: no reset timer is started
handleNavClick_noTimer(st, href) ==
    IF ~StartsWithHash(href) THEN st
    ELSE
    LET sectionId == Substring1(href) IN
    IF ~GetElementById(st.sections, sectionId) THEN st
    ELSE
    LET s1 == updateActiveNav([st EXCEPT !.activeSection = sectionId])
        id == st.navCount + 1
        cleared == IF s1.scrollTimeout # 0
                   THEN ClearTimeout(s1.timers, s1.scrollTimeout)
                   ELSE s1.timers
    IN  [s1 EXCEPT
            !.isScrollingProgrammatically = TRUE,
            !.rafQueue = Append(@, Frame("clickScroll", id, sectionId, href)),
            !.timers = cleared,
            !.navCount = id]

handleNavClick(st, href) ==
    IF ~StartsWithHash(href) THEN st
    ELSE
    LET sectionId == Substring1(href) IN
    IF ~GetElementById(st.sections, sectionId) THEN st
    ELSE
    LET s1 == updateActiveNav([st EXCEPT !.activeSection = sectionId])
        id == st.navCount + 1
        cleared == IF s1.scrollTimeout # 0
                   THEN ClearTimeout(s1.timers, s1.scrollTimeout)
                   ELSE s1.timers
    IN  [s1 EXCEPT
            !.isScrollingProgrammatically = TRUE,
            !.rafQueue = Append(@, Frame("clickScroll", id, sectionId, href)),
            !.timers = cleared \cup {Timer("clickReset", id, ResetDelay, EmptyString)},
            !.scrollTimeout = id,
            !.navCount = id]

-----------------------------------------------------------------------------
(* handleHashChange: hashchange and load listeners, and init's first frame *)

\* what handleHashChange does once it has found its element
HashNavigate(st, sectionId, retries) ==
    LET s1 == updateActiveNav([st EXCEPT !.activeSection = sectionId])
        id == st.navCount + 1
        cleared == IF s1.scrollTimeout # 0
                   THEN ClearTimeout(s1.timers, s1.scrollTimeout)
                   ELSE s1.timers
    IN  [s1 EXCEPT
            !.isScrollingProgrammatically = TRUE,
            !.rafQueue = Append(@, Frame("hashScroll", id, sectionId, st.urlHash)),
            !.timers = cleared
                \cup {Timer(r.kind, id, r.delay, sectionId) : r \in retries}
                \cup {Timer("hashReset", id, ResetDelay, EmptyString)},
            !.scrollTimeout = id,
            !.navCount = id]

\* the delayed scrollToSection calls
Retries ==
    {[kind |-> "retry100", delay |-> RetryDelay1],
     [kind |-> "retry300", delay |-> RetryDelay2]}

\* faulty variant: the link flags are not updated on a hash change
handleHashChange_noNavUpdate(st) ==
    LET hash == st.urlHash IN
    IF Len(hash) > 1 THEN
        LET sectionId == Substring1(hash)
            id == st.navCount + 1
        IN  IF ~GetElementById(st.sections, sectionId) THEN st
            ELSE [st EXCEPT
                    !.activeSection = sectionId,
                    !.isScrollingProgrammatically = TRUE,
                    !.rafQueue = Append(@, Frame("hashScroll", id, sectionId, hash)),
                    !.timers = (IF st.scrollTimeout # 0
                                THEN ClearTimeout(@, st.scrollTimeout) ELSE @)
                        \cup {Timer(r.kind, id, r.delay, sectionId) : r \in Retries}
                        \cup {Timer("hashReset", id, ResetDelay, EmptyString)},
                    !.scrollTimeout = id,
                    !.navCount = id]
    ELSE
        IF Len(st.sections) > 0
        THEN updateActiveNav([st EXCEPT !.activeSection = st.sections[1]])
        ELSE st

\* faulty variant: the outstanding reset timer is not cleared
handleHashChange_noClear(st) ==
    LET hash == st.urlHash IN
    IF Len(hash) > 1 THEN
        LET sectionId == Substring1(hash)
        IN  IF ~GetElementById(st.sections, sectionId) THEN st
            ELSE HashNavigate([st EXCEPT !.scrollTimeout = 0], sectionId, Retries)
    ELSE
        IF Len(st.sections) > 0
        THEN updateActiveNav([st EXCEPT !.activeSection = st.sections[1]])
        ELSE st

\* faulty variant: without a fragment nothing is done
handleHashChange_noDefault(st) ==
    LET hash == st.urlHash IN
    IF Len(hash) > 1 /\ GetElementById(st.sections, Substring1(hash))
    THEN HashNavigate(st, Substring1(hash), Retries)
    ELSE st

\* faulty variant: the 300 ms retry is missing
handleHashChange_oneRetry(st) ==
    LET hash == st.urlHash IN
    IF Len(hash) > 1 THEN
        LET sectionId == Substring1(hash)
        IN  IF ~GetElementById(st.sections, sectionId) THEN st
            ELSE HashNavigate(st, sectionId,
                              {[kind |-> "retry100", delay |-> RetryDelay1]})
    ELSE
        IF Len(st.sections) > 0
        THEN updateActiveNav([st EXCEPT !.activeSection = st.sections[1]])
        ELSE st

handleHashChange(st) ==
    LET hash == st.urlHash IN
    IF Len(hash) > 1 THEN
        LET sectionId == Substring1(hash)
        IN  IF ~GetElementById(st.sections, sectionId) THEN st
            ELSE HashNavigate(st, sectionId, Retries)
    ELSE
        IF Len(st.sections) > 0
        THEN updateActiveNav([st EXCEPT !.activeSection = st.sections[1]])
        ELSE st

-----------------------------------------------------------------------------
(* The IntersectionObserver callback of createSectionObserver *)

\* Map.prototype.set: an existing key keeps its place, a new one goes last
MapSet(m, id, ratio) ==
    IF \E i \in DOMAIN m : m[i].id = id
    THEN [i \in DOMAIN m |-> IF m[i].id = id THEN [id |-> id, ratio |-> ratio] ELSE m[i]]
    ELSE Append(m, [id |-> id, ratio |-> ratio])

\* Map.prototype.delete
MapDelete(m, id) ==
    LET Keep(e) == e.id # id IN SelectSeq(m, Keep)

\* entries.forEach(entry => ...)
RECURSIVE TrackEntries(_, _)
TrackEntries(m, entries) ==
    IF entries = <<>> THEN m
    ELSE LET entry == Head(entries)
             m1 == IF entry.isIntersecting
                   THEN MapSet(m, entry.id, entry.intersectionRatio)
                   ELSE MapDelete(m, entry.id)
         IN  TrackEntries(m1, Tail(entries))

\* intersectingSections.forEach with maxRatio and mostVisibleSection; acc is the pair
RECURSIVE MostVisible(_, _)
MostVisible(m, acc) ==
    IF m = <<>> THEN acc
    ELSE LET e == Head(m)
         IN  IF e.ratio > acc.maxRatio
             THEN MostVisible(Tail(m), [maxRatio |-> e.ratio, mostVisibleSection |-> e.id])
             ELSE MostVisible(Tail(m), acc)

\* the selection and update that follow entries.forEach
SelectMostVisible(s1) ==
    IF Len(s1.intersectingSections) > 0
    THEN LET mostVisibleSection ==
                 MostVisible(s1.intersectingSections,
                             [maxRatio |-> 0, mostVisibleSection |-> EmptyString]
                            ).mostVisibleSection
         IN  IF mostVisibleSection # EmptyString
                /\ mostVisibleSection # s1.activeSection
             THEN ReplaceState(
                      updateActiveNav([s1 EXCEPT !.activeSection = mostVisibleSection]),
                      TemplateHash(mostVisibleSection))
             ELSE s1
    ELSE s1

\* faulty variant: without the early return during programmatic scrolling
observerCallback_noSkip(st, entries) ==
    SelectMostVisible(
        [st EXCEPT !.intersectingSections = TrackEntries(@, entries)])

observerCallback(st, entries) ==
    IF st.isScrollingProgrammatically THEN st
    ELSE
    SelectMostVisible(
        [st EXCEPT !.intersectingSections = TrackEntries(@, entries)])

-----------------------------------------------------------------------------
(* Callbacks run by the event loop *)

\* faulty variant: the click's frame scrolls but leaves the URL alone
runFrameCallback_noReplaceState(st, cb) ==
    IF cb.kind = "initHash" THEN handleHashChange(st)
    ELSE [st EXCEPT !.lastScroll = cb.target]

\* one requestAnimationFrame callback
runFrameCallback(st, cb) ==
    IF cb.kind = "initHash" THEN handleHashChange(st)
    ELSE IF cb.kind = "clickScroll"
    THEN ReplaceState([st EXCEPT !.lastScroll = cb.target], cb.href)
    ELSE [st EXCEPT !.lastScroll = cb.target]

\* every pending requestAnimationFrame callback, frame after frame
RECURSIVE RunFrames(_)
RunFrames(st) ==
    IF st.rafQueue = <<>> THEN st
    ELSE RunFrames(runFrameCallback([st EXCEPT !.rafQueue = Tail(@)], Head(st.rafQueue)))

\* faulty variant: the reset callback leaves the flag up
runTimer_noReset(st, t) ==
    LET s1 == [st EXCEPT !.timers = @ \ {t}] IN
    IF t.kind \in ResetKinds THEN s1
    ELSE [s1 EXCEPT !.lastScroll = t.target]

\* one setTimeout callback
runTimer(st, t) ==
    LET s1 == [st EXCEPT !.timers = @ \ {t}] IN
    IF t.kind \in ResetKinds
    THEN [s1 EXCEPT !.isScrollingProgrammatically = FALSE]
    ELSE [s1 EXCEPT !.lastScroll = t.target]

-----------------------------------------------------------------------------
(* Initial state: after the constructor, before init() *)

\* the 'active' class as the markup has it: none, or the first link's
MarkupActive(links, m) == [i \in DOMAIN links |-> m /\ links[i] = TemplateHash(home)]

Init ==
    /\ sections \in SectionLists
    /\ phase = "constructed"
    /\ activeSection = EmptyString
    /\ isScrollingProgrammatically = FALSE
    /\ scrollTimeout = 0
    /\ intersectingSections = <<>>
    /\ \E m \in BOOLEAN :
          /\ navActive = MarkupActive(NavLinks, m)
          /\ mobileActive = MarkupActive(MobileNavLinks, m)
    /\ urlHash \in Fragments
    /\ rafQueue = <<>>
    /\ inFrame = 0
    /\ timers = {}
    /\ lastScroll = EmptyString
    /\ navCount = 0
    /\ hashChangePending = FALSE
    /\ loadPending = TRUE
    /\ skipped = FALSE
    /\ historyLength = 1
    /\ FormConstructed
    /\ ModalConstructed

-----------------------------------------------------------------------------
(* Scheduling *)

InitHashPending == \E i \in DOMAIN rafQueue : rafQueue[i].kind = "initHash"

\* handleHashChange calls that are already on their way and may need a timer id
Reserved == (IF hashChangePending THEN 1 ELSE 0) + (IF InitHashPending THEN 1 ELSE 0)

\* the event loop is between tasks and the component is listening
Listening == phase = "running" /\ inFrame = 0

\* the event loop is between tasks, init has run
Loaded == phase # "constructed" /\ inFrame = 0

\* the elements bindNavClicks binds, and the window
LinkElements ==
    {[list |-> "navLinks", index |-> i] : i \in DOMAIN NavLinks}
        \cup {[list |-> "mobileNavLinks", index |-> i] : i \in DOMAIN MobileNavLinks}
        \cup {[list |-> "logoLink", index |-> 1]}

Window == [list |-> "window", index |-> 1]

Href(link) ==
    IF link.list = "navLinks" THEN NavLinks[link.index]
    ELSE IF link.list = "mobileNavLinks" THEN MobileNavLinks[link.index]
    ELSE LogoLink

\* addEventListener calls of init and bindNavClicks: target, type, function
Registered ==
    {[target |-> Window, type |-> "scroll", listener |-> "boundHandleScroll"],
     [target |-> Window, type |-> "resize", listener |-> "debouncedResize"],
     [target |-> Window, type |-> "hashchange", listener |-> "() => this.handleHashChange()"],
     [target |-> Window, type |-> "load", listener |-> "() => this.handleHashChange()"]}
        \cup {[target |-> link, type |-> "click", listener |-> "boundHandleNavClick"] :
                 link \in LinkElements}

\* removeEventListener calls of cleanup; one that matches no registered
\* listener removes nothing
Removed ==
    {[target |-> Window, type |-> "scroll", listener |-> "boundHandleScroll"],
     [target |-> Window, type |-> "resize", listener |-> "boundHandleResize"],
     [target |-> Window, type |-> "hashchange", listener |-> "handleHashChange"]}
        \cup {[target |-> link, type |-> "click", listener |-> "boundHandleNavClick"] :
                 link \in {l \in LinkElements : l.list \in {"navLinks", "mobileNavLinks"}}}

\* the listeners that are bound
Listeners ==
    IF phase = "running" THEN Registered
    ELSE IF phase = "cleaned" THEN Registered \ Removed
    ELSE {}

Handles(target, type) == \E l \in Listeners : l.target = target /\ l.type = type

\* a click on an element with this href has a handler
ClickBound(href) ==
    \E link \in LinkElements : Href(link) = href /\ Handles(link, "click")

\* timers run in the order of their due time; of two that are due, one set
\* earlier with a timeout that is not longer runs first
TimerDue(t) ==
    /\ t.left = 0
    /\ ~\E u \in timers : u.left = 0 /\ u.id < t.id /\ u.delay <= t.delay

-----------------------------------------------------------------------------
(* Actions *)

\* ScrollManager.init
init ==
    /\ phase = "constructed"
    /\ phase' = "running"
    /\ Commit(updateActiveNav(
            [St EXCEPT !.rafQueue = Append(@, Frame("initHash", 0, EmptyString, EmptyString))]))
    /\ UNCHANGED <<inFrame, hashChangePending, loadPending, skipped>>

\* a click on a nav link, a mobile-menu link or the logo
Click(href) ==
    /\ Loaded
    /\ ClickBound(href)
    /\ LET r == handleNavClick(St, href) IN
          /\ r.navCount + Reserved <= MaxNav
          /\ Commit(r)
    /\ UNCHANGED <<phase, inFrame, hashChangePending, loadPending, skipped>>

\* the user edits the address bar, follows an in-page link, or goes back/forward
Navigate(fragment) ==
    /\ Loaded
    /\ fragment # urlHash
    /\ ~hashChangePending
    /\ navCount + Reserved < MaxNav
    /\ urlHash' = fragment
    /\ hashChangePending' = TRUE
    /\ UNCHANGED <<sections, phase, activeSection, isScrollingProgrammatically,
                   scrollTimeout, intersectingSections, navActive, mobileActive,
                   rafQueue, inFrame, timers, lastScroll, navCount, loadPending, skipped,
                   historyLength, formVars, modalVars>>

\* the user types a fragment into the address bar or follows an in-page link
\* that is not one of the component's: the browser adds a history entry
AddressBar(fragment) ==
    /\ Loaded
    /\ fragment # urlHash
    /\ ~hashChangePending
    /\ navCount + Reserved < MaxNav
    /\ historyLength < MaxHistory
    /\ urlHash' = fragment
    /\ hashChangePending' = TRUE
    /\ historyLength' = historyLength + 1
    /\ UNCHANGED <<sections, phase, activeSection, isScrollingProgrammatically,
                   scrollTimeout, intersectingSections, navActive, mobileActive,
                   rafQueue, inFrame, timers, lastScroll, navCount, loadPending, skipped,
                   formVars, modalVars>>

\* the hashchange listener
HashChangeEvent ==
    /\ Loaded
    /\ Handles(Window, "hashchange")
    /\ hashChangePending
    /\ hashChangePending' = FALSE
    /\ Commit(handleHashChange(St))
    /\ UNCHANGED <<phase, inFrame, loadPending, skipped>>

\* the load listener
LoadEvent ==
    /\ Loaded
    /\ Handles(Window, "load")
    /\ loadPending
    /\ loadPending' = FALSE
    /\ LET r == handleHashChange(St) IN
          /\ r.navCount + Reserved <= MaxNav
          /\ Commit(r)
    /\ UNCHANGED <<phase, inFrame, hashChangePending, skipped>>

\* intersection ratios: none of the area, the smaller part, the larger part.
\* The callback only compares ratios (ratio > maxRatio), and with two sections
\* these three values give every order two ratios and zero can be in.
Ratios == {0, 1, 2}

EntryKinds ==
    {[reported |-> FALSE, isIntersecting |-> FALSE, intersectionRatio |-> 0],
     [reported |-> TRUE, isIntersecting |-> FALSE, intersectionRatio |-> 0]}
        \cup {[reported |-> TRUE, isIntersecting |-> TRUE, intersectionRatio |-> r] :
                 r \in Ratios}

\* the entries of one callback, in the order the sections are observed
RECURSIVE Entries(_, _, _)
Entries(secs, choice, i) ==
    IF i > Len(secs) THEN <<>>
    ELSE IF ~choice[i].reported THEN Entries(secs, choice, i + 1)
    ELSE <<[id |-> secs[i],
            isIntersecting |-> choice[i].isIntersecting,
            intersectionRatio |-> choice[i].intersectionRatio]>>
            \o Entries(secs, choice, i + 1)

\* the IntersectionObserver delivers entries; it exists only with sections, it
\* is connected from init to cleanup, and its first delivery follows the first
\* frame's callbacks
ObserverCallback(entries) ==
    /\ Listening
    /\ Len(sections) > 0
    /\ ~InitHashPending
    /\ entries # <<>>
    /\ Commit(observerCallback(St, entries))
    /\ UNCHANGED <<phase, inFrame, hashChangePending, loadPending>>

\* the next callback of an animation frame; a frame runs the callbacks that were
\* queued when it began, one after the other, with nothing in between
AnimationFrame ==
    /\ phase # "constructed"
    /\ rafQueue # <<>>
    /\ inFrame' = (IF inFrame = 0 THEN Len(rafQueue) ELSE inFrame) - 1
    /\ Commit(runFrameCallback([St EXCEPT !.rafQueue = Tail(@)], Head(rafQueue)))
    /\ UNCHANGED <<phase, hashChangePending, loadPending, skipped>>

\* a timer that is due runs
TimerFires(t) ==
    /\ Loaded
    /\ TimerDue(t)
    /\ Commit(runTimer(St, t))
    /\ UNCHANGED <<phase, inFrame, hashChangePending, loadPending>>

\* time can pass: the frame has run, no event waits, no timer is due
TimePasses ==
    /\ Loaded
    /\ rafQueue = <<>>
    /\ ~hashChangePending
    /\ timers # {}
    /\ \A t \in timers : t.left > 0

\* 100 ms pass while a scroll retry is pending
Tick ==
    /\ TimePasses
    /\ \E t \in timers : t.kind \notin ResetKinds
    /\ timers' = {[t EXCEPT !.left = @ - 1] : t \in timers}
    /\ UNCHANGED <<sections, phase, activeSection, isScrollingProgrammatically,
                   scrollTimeout, intersectingSections, navActive, mobileActive,
                   urlHash, rafQueue, inFrame, lastScroll, navCount, hashChangePending,
                   loadPending, skipped, historyLength, formVars, modalVars>>

\* only the reset timer is pending: the rest of its delay passes.  How much of
\* it is left makes no difference to any handler, since every navigation
\* cancels it and no other timer is there to run before it.
Wait ==
    /\ TimePasses
    /\ \A t \in timers : t.kind \in ResetKinds
    /\ timers' = {[t EXCEPT !.left = 0] : t \in timers}
    /\ UNCHANGED <<sections, phase, activeSection, isScrollingProgrammatically,
                   scrollTimeout, intersectingSections, navActive, mobileActive,
                   urlHash, rafQueue, inFrame, lastScroll, navCount, hashChangePending,
                   loadPending, skipped, historyLength, formVars, modalVars>>

ObserverDelivers ==
    \E choice \in [DOMAIN sections -> EntryKinds] :
        ObserverCallback(Entries(sections, choice, 1))

TimerRuns == \E t \in timers : TimerFires(t)

UserOrFrame ==
    \/ init
    \/ \E href \in CombinedLinks : Click(href)
    \/ \E fragment \in Fragments : Navigate(fragment)
    \/ HashChangeEvent
    \/ LoadEvent
    \/ AnimationFrame
    \/ Tick
    \/ Wait

Next ==
    \/ UserOrFrame
    \/ ObserverDelivers /\ UNCHANGED skipped
    \/ TimerRuns /\ UNCHANGED skipped

Spec == Init /\ [][Next]_vars

\* the same system, with the discarded deliveries recorded in skipped
NextRec ==
    \/ UserOrFrame
    \/ ObserverDelivers /\ skipped' = isScrollingProgrammatically
    \/ TimerRuns /\ skipped' = (skipped /\ isScrollingProgrammatically')

SpecRec == Init /\ [][NextRec]_vars

\* the same system, with the history entries the user adds counted
NextHist ==
    \/ Next
    \/ \E fragment \in Fragments : AddressBar(fragment)

SpecHist == Init /\ [][NextHist]_vars

\* ScrollManager.cleanup, called by PortfolioApp.cleanup on beforeunload
cleanup ==
    /\ Listening
    /\ phase' = "cleaned"
    /\ Commit([St EXCEPT !.timers = IF St.scrollTimeout # 0
                                    THEN ClearTimeout(@, St.scrollTimeout)
                                    ELSE @])
    /\ UNCHANGED <<inFrame, hashChangePending, loadPending, skipped>>

\* the same system, with cleanup and the events that follow it
NextCleanup ==
    \/ Next
    \/ cleanup

SpecCleanup == Init /\ [][NextCleanup]_vars

\* the event loop does not stall: a frame that is queued runs, a hashchange
\* event that is queued is dispatched, a timer that is due runs, and time
\* passes again and again whatever else happens
EventLoopFair ==
    /\ WF_vars(AnimationFrame)
    /\ WF_vars(HashChangeEvent)
    /\ WF_vars(TimerRuns /\ UNCHANGED skipped)
    /\ SF_vars(Tick)
    /\ SF_vars(Wait)

SpecLive == Init /\ [][Next]_vars /\ EventLoopFair

-----------------------------------------------------------------------------
(* The properties below are stated of the handlers as the actions apply them:
   "after handler h, Q" is  Q(h(St))  in every reachable state in which h can
   be called. *)

\* the listeners are bound
Running == phase = "running"

\* every batch of entries the observer can deliver
Deliveries ==
    {Entries(sections, choice, 1) : choice \in [DOMAIN sections -> EntryKinds]} \ {<<>>}

ResetTimers(ts) == {t \in ts : t.kind \in ResetKinds}

\* hrefs of the bound links that name a registered section
SectionLinks ==
    {href \in CombinedLinks :
        StartsWithHash(href) /\ Substring1(href) \in SectionIds(sections)}

-----------------------------------------------------------------------------
(* C1: after handleNavClick on a link with href '#s', s the id of an existing
   section, activeSection is s, every nav and mobile-menu link with href '#s'
   has the 'active' flag, and no other nav or mobile-menu link has it. *)
C1_ClickActivatesOneSection ==
    Running =>
        \A href \in SectionLinks :
            LET r == handleNavClick(St, href) IN
            /\ r.activeSection = Substring1(href)
            /\ \A i \in DOMAIN NavLinks : r.navActive[i] <=> (NavLinks[i] = href)
            /\ \A i \in DOMAIN MobileNavLinks :
                  r.mobileActive[i] <=> (MobileNavLinks[i] = href)

\* the click on '#about' has run and its frame is still to come
C1_Witness ==
    /\ rafQueue # <<>>
    /\ rafQueue[Len(rafQueue)] = Frame("clickScroll", navCount, about, TemplateHash(about))
    /\ activeSection = about
    /\ navActive = <<FALSE, TRUE>>
    /\ mobileActive = <<FALSE, TRUE, FALSE>>

(* C2: an IntersectionObserver callback delivered while
   isScrollingProgrammatically is true leaves activeSection, the link active
   flags and the URL fragment as they were, whatever it reports; the flag
   stays true, so the same holds of every sequence of such callbacks. *)
C2_SuppressedCallbackChangesNothing ==
    (Running /\ isScrollingProgrammatically) =>
        \A entries \in Deliveries :
            LET r == observerCallback(St, entries) IN
            /\ r.activeSection = activeSection
            /\ r.navActive = navActive
            /\ r.mobileActive = mobileActive
            /\ r.urlHash = urlHash
            /\ r.isScrollingProgrammatically

\* a callback was delivered, and discarded, during a suppression window
C2_Witness ==
    /\ skipped
    /\ isScrollingProgrammatically
    /\ activeSection = about
    /\ intersectingSections # <<>>

(* C3: activeSection is the empty string or the id of a registered section, in
   every reachable state. *)
C3_ActiveSectionIsRegistered ==
    activeSection = EmptyString \/ activeSection \in SectionIds(sections)

-----------------------------------------------------------------------------
\* what a user can see of the component at once
Observable(st) ==
    <<st.activeSection, st.navActive, st.mobileActive, st.isScrollingProgrammatically>>

\* the URL fragment and the scroll target once the pending frames have run
Settled(st) ==
    LET f == RunFrames(st) IN <<f.urlHash, f.lastScroll>>

\* the delayed scrollToSection calls that are pending
ScrollTimers(ts) == {t \in ts : t.kind \notin ResetKinds}

\* which reset timer is pending, and how long it still has to run
ResetStatus(ts) == {<<t.id, t.left>> : t \in ResetTimers(ts)}

(* C4: a second handleNavClick for the same section, right after the first or
   after the first's frame has run, leaves activeSection, the link flags,
   isScrollingProgrammatically and, once the pending frames have run, the URL
   fragment and the scroll target as the first left them; one reset timer is
   pending, the second call's, and the other timers are untouched. *)
C4_SecondClickChangesOnlyTheTimer ==
    Running =>
        \A href \in SectionLinks :
            LET one == handleNavClick(St, href)
                two == handleNavClick(one, href)
                late == handleNavClick(RunFrames(one), href)
            IN  /\ Observable(two) = Observable(one)
                /\ Settled(two) = Settled(one)
                /\ ScrollTimers(two.timers) = ScrollTimers(one.timers)
                /\ ResetTimers(one.timers) =
                      {Timer("clickReset", one.navCount, ResetDelay, EmptyString)}
                /\ ResetTimers(two.timers) =
                      {Timer("clickReset", two.navCount, ResetDelay, EmptyString)}
                /\ two.navCount = one.navCount + 1
                /\ ~InitHashPending =>
                      /\ Observable(late) = Observable(one)
                      /\ Settled(late) = Settled(one)
                      /\ ResetTimers(late.timers) =
                            {Timer("clickReset", late.navCount, ResetDelay, EmptyString)}

\* two clicks on '#about' in a row: both frames wait, one reset timer is pending
C4_Witness ==
    /\ Len(rafQueue) >= 2
    /\ rafQueue[Len(rafQueue) - 1] =
          Frame("clickScroll", navCount - 1, about, TemplateHash(about))
    /\ rafQueue[Len(rafQueue)] = Frame("clickScroll", navCount, about, TemplateHash(about))
    /\ ResetTimers(timers) = {Timer("clickReset", navCount, ResetDelay, EmptyString)}
    /\ activeSection = about
    /\ isScrollingProgrammatically

(* C5: from every state, handleHashChange with the fragment '#s', s a
   registered section, and handleNavClick for s give the same activeSection,
   link flags and isScrollingProgrammatically, and the same pending reset
   timer: one, set by the call, with its whole delay to run. *)
C5_HashChangeLikeClick ==
    \A s \in SectionIds(sections) :
        LET viaHash == handleHashChange([St EXCEPT !.urlHash = TemplateHash(s)])
            viaClick == handleNavClick(St, TemplateHash(s))
        IN  /\ Observable(viaHash) = Observable(viaClick)
            /\ ResetStatus(viaHash.timers) = ResetStatus(viaClick.timers)
            /\ ResetStatus(viaHash.timers) = {<<navCount + 1, ResetDelay>>}
            /\ viaHash.activeSection = s

\* the hashchange listener has run for '#about' after 'home' was active
C5_Witness ==
    /\ rafQueue # <<>>
    /\ rafQueue[Len(rafQueue)] = Frame("hashScroll", navCount, about, TemplateHash(about))
    /\ ~hashChangePending
    /\ ~loadPending
    /\ activeSection = about
    /\ navActive = <<FALSE, TRUE>>
    /\ mobileActive = <<FALSE, TRUE, FALSE>>
    /\ isScrollingProgrammatically
    /\ ResetStatus(timers) = {<<navCount, ResetDelay>>}

\* the fields a no-op leaves as they are
Unchanged(r) ==
    /\ r.activeSection = activeSection
    /\ r.isScrollingProgrammatically = isScrollingProgrammatically
    /\ ResetTimers(r.timers) = ResetTimers(timers)
    /\ r.navActive = navActive
    /\ r.mobileActive = mobileActive

(* C6: with no section registered, handleNavClick for every bound link and
   handleHashChange for every URL fragment leave activeSection,
   isScrollingProgrammatically, the pending reset timer, the link flags and
   the URL fragment as they were. *)
C6_NoSectionsNoEffect ==
    (Running /\ Len(sections) = 0) =>
        /\ \A href \in CombinedLinks :
              LET r == handleNavClick(St, href) IN
              Unchanged(r) /\ r.urlHash = urlHash
        /\ \A fragment \in Fragments :
              LET r == handleHashChange([St EXCEPT !.urlHash = fragment]) IN
              Unchanged(r) /\ r.urlHash = fragment

\* init has run and its requestAnimationFrame callback is the next to run
FirstFrameNext == Running /\ rafQueue # <<>> /\ Head(rafQueue).kind = "initHash"

(* C7: the handleHashChange of init's first frame, with at least one section:
   with an empty URL fragment and no navigation before it, it leaves
   isScrollingProgrammatically false, no reset timer pending and activeSection
   the first section; with a fragment that names a registered section it
   leaves activeSection that section. *)
C7_StateAfterFirstFrame ==
    (FirstFrameNext /\ Len(sections) > 0) =>
        LET r == runFrameCallback([St EXCEPT !.rafQueue = Tail(@)], Head(rafQueue)) IN
        /\ (urlHash = EmptyString /\ navCount = 0) =>
              /\ ~r.isScrollingProgrammatically
              /\ ResetTimers(r.timers) = {}
              /\ r.activeSection = sections[1]
        /\ (StartsWithHash(urlHash) /\ Substring1(urlHash) \in SectionIds(sections)) =>
              r.activeSection = Substring1(urlHash)

\* the first frame has run on a page loaded without a fragment
C7_Witness ==
    /\ Running
    /\ ~InitHashPending
    /\ loadPending
    /\ navCount = 0
    /\ urlHash = EmptyString
    /\ activeSection = home
    /\ ~isScrollingProgrammatically
    /\ timers = {}

(* C8: handleNavClick for the link of section s sets activeSection to s itself
   and leaves the scroll and the URL fragment to a requestAnimationFrame
   callback; when that callback runs the scroll goes to s and the URL
   fragment becomes '#s'. *)
C8_ActiveBeforeScrollThenUrl ==
    Running =>
        \A href \in SectionLinks :
            LET s == Substring1(href)
                r == handleNavClick(St, href)
                cb == Frame("clickScroll", r.navCount, s, href)
                f == runFrameCallback(r, cb)
            IN  /\ r.activeSection = s
                /\ r.lastScroll = lastScroll
                /\ r.urlHash = urlHash
                /\ r.rafQueue = Append(rafQueue, cb)
                /\ f.lastScroll = s
                /\ f.urlHash = TemplateHash(s)
                /\ f.activeSection = s

\* the frame that follows a click on '#about' has run
C8_Witness ==
    /\ urlHash = TemplateHash(about)
    /\ lastScroll = about
    /\ activeSection = about
    /\ rafQueue = <<>>
    /\ Timer("clickReset", navCount, ResetDelay, EmptyString) \in timers
    /\ ~\E t \in timers : t.kind \notin ResetKinds

\* the requestAnimationFrame callbacks of handleHashChange calls that are pending
HashFrames == {rafQueue[i] : i \in {j \in DOMAIN rafQueue : rafQueue[j].kind = "hashScroll"}}

\* the timer of the given kind that call id has set and that is still pending
Pending(kind, id) == {t \in timers : t.kind = kind /\ t.id = id}

(* C9: a handleHashChange whose fragment names a registered section s sets up
   a scroll to s in the next animation frame, one after 100 ms, one after
   300 ms, and its reset after 1500 ms.  No handler drops a pending scroll.
   While the frame is pending both delayed scrolls still have their whole
   delay to run; while the 100 ms scroll is pending the 300 ms scroll is
   pending and due later; and while any of the three is pending and no later
   navigation has cancelled the call's reset timer, that timer is pending and
   due later still.  A frame is taken to run before 100 ms have passed. *)
C9_ThreeScrollsBeforeReset ==
    /\ \A s \in SectionIds(sections) :
          LET r == handleHashChange([St EXCEPT !.urlHash = TemplateHash(s)])
              id == navCount + 1
          IN  /\ r.rafQueue = Append(rafQueue, Frame("hashScroll", id, s, TemplateHash(s)))
              /\ r.timers \ timers =
                    {Timer("retry100", id, RetryDelay1, s),
                     Timer("retry300", id, RetryDelay2, s),
                     Timer("hashReset", id, ResetDelay, EmptyString)}
              /\ RetryDelay1 < RetryDelay2 /\ RetryDelay2 < ResetDelay
              /\ ScrollTimers(timers) \subseteq r.timers
              /\ runFrameCallback(r, Frame("hashScroll", id, s, TemplateHash(s))).lastScroll = s
              /\ \A t \in ScrollTimers(r.timers \ timers) : runTimer(r, t).lastScroll = s
    /\ \A href \in CombinedLinks :
          LET r == handleNavClick(St, href) IN
          /\ ScrollTimers(timers) \subseteq r.timers
          /\ \A i \in DOMAIN rafQueue : r.rafQueue[i] = rafQueue[i]
    /\ \A f \in HashFrames :
          /\ Pending("retry100", f.id) = {Timer("retry100", f.id, RetryDelay1, f.target)}
          /\ Pending("retry300", f.id) = {Timer("retry300", f.id, RetryDelay2, f.target)}
    /\ \A t \in timers : t.kind = "retry100" =>
          \E u \in Pending("retry300", t.id) : u.left > t.left /\ u.target = t.target
    /\ \A t \in ScrollTimers(timers) : t.id = navCount =>
          \E u \in Pending("hashReset", t.id) : u.left > t.left
    /\ \A f \in HashFrames : f.id = navCount =>
          \E u \in Pending("hashReset", f.id) : u.left = ResetDelay

\* the three scrolls to 'about' have been made and the reset is still to come
C9_Witness ==
    /\ Running
    /\ rafQueue = <<>>
    /\ timers # {}
    /\ \A t \in timers : t.kind = "hashReset" /\ t.id = navCount /\ t.left > 0
                            /\ t.left <= ResetDelay - RetryDelay2
    /\ lastScroll = about
    /\ activeSection = about
    /\ isScrollingProgrammatically

\* the sections of the map whose ratio is the largest in the map
ArgMax(m) ==
    {m[i].id : i \in {j \in DOMAIN m : \A k \in DOMAIN m : m[j].ratio >= m[k].ratio}}

(* C10: an IntersectionObserver callback that is processed, that is one
   delivered while isScrollingProgrammatically is false, and that leaves the
   set of intersecting sections non-empty, leaves activeSection a section of
   that set with the largest ratio in it. *)
C10_ActiveIsMostVisible ==
    (Running /\ ~isScrollingProgrammatically /\ Len(sections) > 0 /\ ~InitHashPending) =>
        \A entries \in Deliveries :
            LET r == observerCallback(St, entries) IN
            r.intersectingSections # <<>> =>
                r.activeSection \in ArgMax(r.intersectingSections)

\* the URL fragments that are not empty and name no registered section
UnknownFragments ==
    {fragment \in Fragments :
        Len(fragment) > 1 /\ Substring1(fragment) \notin SectionIds(sections)}

(* C11: handleHashChange with a non-empty URL fragment that names no section
   makes the first section active, issues no scroll and leaves
   isScrollingProgrammatically and the reset timer as they were, as it does
   for the empty fragment. *)
C11_UnknownFragmentFallsBack ==
    (Running /\ Len(sections) > 0) =>
        \A fragment \in UnknownFragments :
            LET r == handleHashChange([St EXCEPT !.urlHash = fragment])
                e == handleHashChange([St EXCEPT !.urlHash = EmptyString])
            IN  /\ r.activeSection = sections[1]
                /\ r.rafQueue = rafQueue
                /\ r.timers = timers
                /\ r.isScrollingProgrammatically = isScrollingProgrammatically
                /\ Observable(r) = Observable(e)

(* C12: at most one reset timer is pending, in every reachable state, and it
   is the one kept in scrollTimeout; after handleNavClick and after
   handleHashChange to an element the pending reset timer is the call's. *)
C12_OneResetTimer ==
    /\ Cardinality(ResetTimers(timers)) <= 1
    /\ \A t \in ResetTimers(timers) : t.id = scrollTimeout
    /\ \A href \in CombinedLinks :
          LET r == handleNavClick(St, href) IN
          /\ Cardinality(ResetTimers(r.timers)) <= 1
          /\ r.navCount # navCount => ResetStatus(r.timers) = {<<r.navCount, ResetDelay>>}
    /\ \A fragment \in Fragments :
          LET r == handleHashChange([St EXCEPT !.urlHash = fragment]) IN
          /\ Cardinality(ResetTimers(r.timers)) <= 1
          /\ r.navCount # navCount => ResetStatus(r.timers) = {<<r.navCount, ResetDelay>>}

\* a click right after a hash change: both frames wait, the click's timer alone
\* is pending
C12_Witness ==
    /\ Len(rafQueue) = 2
    /\ rafQueue[1].kind = "hashScroll" /\ rafQueue[1].id = navCount - 1
    /\ rafQueue[2].kind = "clickScroll" /\ rafQueue[2].id = navCount
    /\ ResetTimers(timers) = {Timer("clickReset", navCount, ResetDelay, EmptyString)}
    /\ Pending("retry300", navCount - 1) # {}

\* the flag is not lowered by the handler whose result r is
KeepsFlag(r) == isScrollingProgrammatically => r.isScrollingProgrammatically

(* C13: while a reset timer is pending it is the most recent navigation's and
   isScrollingProgrammatically is true; no click, hash change, frame callback
   or observer callback lowers the flag, and of the timers only the most
   recent navigation's reset timer does.  So from a navigation until the
   timer of the last navigation that follows it in time fires, the flag is
   true, and an earlier navigation's timer never clears it. *)
C13_OnlyLastTimerClearsFlag ==
    /\ \A t \in ResetTimers(timers) : t.id = navCount /\ isScrollingProgrammatically
    /\ \A t \in timers :
          LET r == runTimer(St, t) IN
          (isScrollingProgrammatically /\ ~r.isScrollingProgrammatically) =>
              (t.kind \in ResetKinds /\ t.id = navCount)
    /\ \A href \in CombinedLinks : KeepsFlag(handleNavClick(St, href))
    /\ \A fragment \in Fragments :
          KeepsFlag(handleHashChange([St EXCEPT !.urlHash = fragment]))
    /\ \A i \in DOMAIN rafQueue : KeepsFlag(runFrameCallback(St, rafQueue[i]))
    /\ \A entries \in Deliveries : KeepsFlag(observerCallback(St, entries))
    /\ \A s \in SectionIds(sections) :
          /\ handleNavClick(St, TemplateHash(s)).isScrollingProgrammatically
          /\ handleHashChange([St EXCEPT !.urlHash = TemplateHash(s)]
                ).isScrollingProgrammatically

\* a second navigation came within 300 ms of a hash change, time has passed
\* since, and the flag is still up with the second timer running
C13_Witness ==
    /\ navCount >= 2
    /\ ScrollTimers(timers) # {}
    /\ \A t \in ScrollTimers(timers) : t.id = navCount - 1
    /\ \E t \in ResetTimers(timers) : t.id = navCount /\ t.left < ResetDelay
    /\ isScrollingProgrammatically

\* the step lowers the flag
FlagCleared == isScrollingProgrammatically /\ ~isScrollingProgrammatically'

\* the step is the callback of the pending reset timer
ResetTimerFired == \E t \in ResetTimers(timers) : t.left = 0 /\ timers' = timers \ {t}

(* C14: whenever isScrollingProgrammatically is true it is false again later,
   provided the event loop keeps running and time keeps passing (the model
   allows a bounded number of navigations); and a step that lowers the flag
   is the callback of the pending reset timer. *)
C14_EventuallyIdle ==
    /\ isScrollingProgrammatically ~> ~isScrollingProgrammatically
    /\ [][FlagCleared => ResetTimerFired]_vars

\* the reset timer of the last navigation has fired
C14_Witness ==
    /\ navCount > 0
    /\ scrollTimeout = navCount
    /\ ~isScrollingProgrammatically
    /\ timers = {}
    /\ rafQueue = <<>>

\* the callbacks that scroll
ScrollFrames ==
    {rafQueue[i] : i \in {j \in DOMAIN rafQueue : rafQueue[j].kind # "initHash"}}

(* C15: a delayed scroll of a hash change is never pending together with the
   frame of a later navigation to another section (the frame would run first
   and the delayed scroll after it); and once the frames and the delayed
   scrolls have run, and before visibility tracking is on again, the last
   scroll went to activeSection. *)
C15_LastScrollIsLastNavigation ==
    /\ \A t \in ScrollTimers(timers) : \A f \in ScrollFrames :
          f.id > t.id => f.target = t.target
    /\ (Running /\ navCount > 0 /\ isScrollingProgrammatically
            /\ rafQueue = <<>> /\ ScrollTimers(timers) = {}) =>
          lastScroll = activeSection

(* C16: once the pending frames have run and no hashchange event waits, a URL
   fragment that names an element names activeSection. *)
C16_FragmentNamesActiveSection ==
    (Running /\ rafQueue = <<>> /\ ~hashChangePending
        /\ Len(urlHash) > 1 /\ GetElementById(sections, Substring1(urlHash))) =>
            urlHash = TemplateHash(activeSection)

\* the section the links are marked for
CurrentSection == IF activeSection # EmptyString THEN activeSection ELSE sections[1]

\* how many links of both menus carry 'active'
ActiveLinkCount ==
    Cardinality({i \in DOMAIN NavLinks : navActive[i]})
        + Cardinality({i \in DOMAIN MobileNavLinks : mobileActive[i]})

(* C17, as stated: after init with at least one section exactly one link of
   the two menus together carries 'active', and its href is '#' followed by
   activeSection or, while that is empty, by the first section's id. *)
C17_ExactlyOneActiveLink ==
    (Running /\ Len(sections) > 0) =>
        /\ ActiveLinkCount = 1
        /\ \A i \in DOMAIN NavLinks :
              navActive[i] => NavLinks[i] = TemplateHash(CurrentSection)
        /\ \A i \in DOMAIN MobileNavLinks :
              mobileActive[i] => MobileNavLinks[i] = TemplateHash(CurrentSection)

(* C17, amended: after init with at least one section a link of either menu
   carries 'active' exactly when its href is '#' followed by activeSection
   or, while that is empty, by the first section's id; each menu has its own
   active link. *)
C17_ActiveLinksMatchSection ==
    (Running /\ Len(sections) > 0) =>
        /\ \A i \in DOMAIN NavLinks :
              navActive[i] <=> NavLinks[i] = TemplateHash(CurrentSection)
        /\ \A i \in DOMAIN MobileNavLinks :
              mobileActive[i] <=> MobileNavLinks[i] = TemplateHash(CurrentSection)

\* a visibility update has made 'about' active: its link is marked in both menus
C17_Witness ==
    /\ navCount = 0
    /\ ~isScrollingProgrammatically
    /\ activeSection = about
    /\ intersectingSections # <<>>
    /\ navActive = <<FALSE, TRUE>>
    /\ mobileActive = <<FALSE, TRUE, FALSE>>
    /\ ActiveLinkCount = 2

(* C19: while isScrollingProgrammatically is true, a click or a hash change
   that changes activeSection restarts the reset timer: after it the pending
   reset timer is the one the event has set, with its whole delay to run.
   The hash change may have any fragment, the empty one included. *)
C19_NavigationRestartsTimer ==
    (Running /\ isScrollingProgrammatically) =>
        /\ \A href \in CombinedLinks :
              LET r == handleNavClick(St, href) IN
              r.activeSection # activeSection =>
                  /\ r.navCount = navCount + 1
                  /\ ResetStatus(r.timers) = {<<r.navCount, ResetDelay>>}
        /\ \A fragment \in Fragments :
              LET r == handleHashChange([St EXCEPT !.urlHash = fragment]) IN
              r.activeSection # activeSection =>
                  /\ r.navCount = navCount + 1
                  /\ ResetStatus(r.timers) = {<<r.navCount, ResetDelay>>}

\* the handler whose result r is has added no history entry
SameHistory(r) == r.historyLength = historyLength

(* C18: no operation of the component adds a history entry: the history is
   as long after handleNavClick and after its frame callback, after
   handleHashChange, after an observer callback and after a timer callback as
   it was before. *)
C18_NoHistoryEntryAdded ==
    /\ \A href \in CombinedLinks :
          /\ SameHistory(handleNavClick(St, href))
          /\ SameHistory(RunFrames(handleNavClick(St, href)))
    /\ \A fragment \in Fragments :
          /\ SameHistory(handleHashChange([St EXCEPT !.urlHash = fragment]))
          /\ SameHistory(RunFrames(handleHashChange([St EXCEPT !.urlHash = fragment])))
    /\ \A entries \in Deliveries : SameHistory(observerCallback(St, entries))
    /\ \A i \in DOMAIN rafQueue : SameHistory(runFrameCallback(St, rafQueue[i]))
    /\ \A t \in timers : SameHistory(runTimer(St, t))

\* the user has added an entry for '#home', and a visibility update has then
\* put '#about' into the URL: the history still has the user's two entries
C18_Witness ==
    /\ Running
    /\ ~InitHashPending
    /\ ~hashChangePending
    /\ historyLength = 2
    /\ ~isScrollingProgrammatically
    /\ timers = {}
    /\ lastScroll = home
    /\ activeSection = about
    /\ urlHash = TemplateHash(about)

-----------------------------------------------------------------------------
(* FormManager: the contact form.  Time is counted in units of 10 s. *)

\* FORM_CONFIG.rateLimitMs (30000) and the abort timer of handleSubmit (20000)
RateLimitMs == 3
FetchTimeout == 2

FormSt ==
    [fields |-> fields,
     botcheck |-> botcheck,
     online |-> online,
     formEnabled |-> formEnabled,
     request |-> request,
     abortLeft |-> abortLeft,
     lastFormSubmit |-> lastFormSubmit,
     now |-> now,
     posts |-> posts,
     notification |-> notification]

FormCommit(r) ==
    /\ fields' = r.fields
    /\ botcheck' = r.botcheck
    /\ online' = r.online
    /\ formEnabled' = r.formEnabled
    /\ request' = r.request
    /\ abortLeft' = r.abortLeft
    /\ lastFormSubmit' = r.lastFormSubmit
    /\ now' = r.now
    /\ posts' = r.posts
    /\ notification' = r.notification
    /\ UNCHANGED <<scrollVars, modalVars>>

showNotification(st, message) == [st EXCEPT !.notification = message]

\* faulty variant: the form is never disabled
setFormState_noDisable(st, enabled) == [st EXCEPT !.formEnabled = TRUE]

setFormState(st, enabled) == [st EXCEPT !.formEnabled = enabled]

\* this.inputs.forEach of handleSubmit: is a field empty, is a filled one invalid
hasEmptyFields(st) == \E i \in DOMAIN st.fields : st.fields[i] = "empty"
hasInvalidFields(st) == \E i \in DOMAIN st.fields : st.fields[i] = "invalid"

\* the rate-limit test of handleSubmit
RateLimited(st) ==
    /\ st.lastFormSubmit # <<>>
    /\ st.now - ParseInt(st.lastFormSubmit) < RateLimitMs

\* faulty variant: without the rate-limit check
handleSubmit_noRateLimit(st) ==
    IF ~st.online THEN showNotification(st, "offline")
    ELSE IF st.botcheck THEN showNotification(st, "success")
    ELSE IF hasEmptyFields(st) THEN showNotification(st, "fillAll")
    ELSE IF hasInvalidFields(st) THEN showNotification(st, "fillCorrectly")
    ELSE [setFormState(st, FALSE) EXCEPT
             !.request = "sent", !.abortLeft = FetchTimeout, !.posts = @ + 1]

\* faulty variant: without the honeypot check
handleSubmit_noHoneypot(st) ==
    IF ~st.online THEN showNotification(st, "offline")
    ELSE IF RateLimited(st) THEN showNotification(st, "wait")
    ELSE IF hasEmptyFields(st) THEN showNotification(st, "fillAll")
    ELSE IF hasInvalidFields(st) THEN showNotification(st, "fillCorrectly")
    ELSE [setFormState(st, FALSE) EXCEPT
             !.request = "sent", !.abortLeft = FetchTimeout, !.posts = @ + 1]

\* handleSubmit up to its first await: the checks, and the fetch
handleSubmit(st) ==
    IF ~st.online THEN showNotification(st, "offline")
    ELSE IF RateLimited(st) THEN showNotification(st, "wait")
    ELSE IF st.botcheck THEN showNotification(st, "success")
    ELSE IF hasEmptyFields(st) THEN showNotification(st, "fillAll")
    ELSE IF hasInvalidFields(st) THEN showNotification(st, "fillCorrectly")
    ELSE [setFormState(st, FALSE) EXCEPT
             !.request = "sent", !.abortLeft = FetchTimeout, !.posts = @ + 1]

\* the catch block and the finally block of handleSubmit
catchAndFinally(st, error) ==
    LET message == IF error = "AbortError" THEN "timeout"
                   ELSE IF ~st.online THEN "lost"
                   ELSE IF error = "Failed to fetch" THEN "network"
                   ELSE "failed"
    IN  [setFormState(showNotification(st, message), TRUE) EXCEPT !.request = "none"]

\* handleSubmit after response.json(): result.success or not
handleResult(st, success) ==
    IF success
    THEN [setFormState(showNotification(st, "success"), TRUE) EXCEPT
             !.lastFormSubmit = NumberToString(st.now),
             !.fields = [i \in DOMAIN st.fields |-> "empty"],
             !.botcheck = FALSE,
             !.request = "none"]
    ELSE catchAndFinally(st, "Submission failed")

-----------------------------------------------------------------------------
(* The form's specification; the ScrollManager stays as constructed *)

ScrollConstructed ==
    /\ sections = AllSections
    /\ phase = "constructed"
    /\ activeSection = EmptyString
    /\ isScrollingProgrammatically = FALSE
    /\ scrollTimeout = 0
    /\ intersectingSections = <<>>
    /\ navActive = MarkupActive(NavLinks, FALSE)
    /\ mobileActive = MarkupActive(MobileNavLinks, FALSE)
    /\ urlHash = EmptyString
    /\ rafQueue = <<>>
    /\ inFrame = 0
    /\ timers = {}
    /\ lastScroll = EmptyString
    /\ navCount = 0
    /\ hashChangePending = FALSE
    /\ loadPending = TRUE
    /\ skipped = FALSE
    /\ historyLength = 1

\* after the constructor; localStorage may hold the timestamp of an earlier visit
InitForm ==
    /\ ScrollConstructed
    /\ ModalConstructed
    /\ formPhase = "constructed"
    /\ fields = [i \in DOMAIN Inputs |-> "empty"]
    /\ botcheck = FALSE
    /\ online \in BOOLEAN
    /\ formEnabled = TRUE
    /\ request = "none"
    /\ abortLeft = -1
    /\ lastFormSubmit \in {<<>>, NumberToString(0)}
    /\ now = 0
    /\ posts = 0
    /\ notification = "none"

\* FormManager.init: the form is found and the listeners are set up
formInit ==
    /\ formPhase = "constructed"
    /\ formPhase' = "ready"
    /\ UNCHANGED <<fields, botcheck, online, formEnabled, request, abortLeft,
                   lastFormSubmit, now, posts, notification, scrollVars, modalVars>>

\* the user types into an input; a disabled input takes no text
EditField(i, v) ==
    /\ formPhase = "ready"
    /\ formEnabled
    /\ fields[i] # v
    /\ FormCommit([FormSt EXCEPT !.fields[i] = v])
    /\ UNCHANGED formPhase

\* a bot ticks the hidden checkbox
CheckBotcheck ==
    /\ formPhase = "ready"
    /\ formEnabled
    /\ ~botcheck
    /\ FormCommit([FormSt EXCEPT !.botcheck = TRUE])
    /\ UNCHANGED formPhase

\* the connection comes and goes
ConnectionChanges ==
    /\ formPhase = "ready"
    /\ FormCommit([FormSt EXCEPT !.online = ~@])
    /\ UNCHANGED formPhase

\* the submit event: the button is clicked, or pressed by
\* handleEnterKeySubmission; a disabled button submits nothing.  A request is
\* started only while the clock can still run to the end of its abort timer.
Submit ==
    /\ formPhase = "ready"
    /\ formEnabled
    /\ LET r == handleSubmit(FormSt) IN
          /\ r.posts <= MaxPosts
          /\ r.request = "sent" => now + FetchTimeout <= MaxTime
          /\ FormCommit(r)
    /\ UNCHANGED formPhase

\* fetch resolves: the response's status line and headers are there, and the
\* abort timer is cleared
ResponseArrives(ok) ==
    /\ request = "sent"
    /\ abortLeft > 0
    /\ FormCommit([FormSt EXCEPT !.request = IF ok THEN "headers" ELSE "errorHeaders",
                                 !.abortLeft = -1])
    /\ UNCHANGED formPhase

\* response.json() resolves
BodyArrives(success) ==
    /\ request = "headers"
    /\ FormCommit(handleResult(FormSt, success))
    /\ UNCHANGED formPhase

\* response.text() of a response that is not ok resolves, and the error is thrown
ErrorBodyArrives ==
    /\ request = "errorHeaders"
    /\ FormCommit(catchAndFinally(FormSt, "Server error"))
    /\ UNCHANGED formPhase

\* fetch rejects: the connection failed.  The abort timer is left to run; when
\* it fires it aborts a fetch that is over, which does nothing, so the model
\* drops it here.
FetchFails ==
    /\ request = "sent"
    /\ abortLeft > 0
    /\ FormCommit(catchAndFinally([FormSt EXCEPT !.abortLeft = -1], "Failed to fetch"))
    /\ UNCHANGED formPhase

\* the abort timer fires while the fetch is pending
AbortFires ==
    /\ request = "sent"
    /\ abortLeft = 0
    /\ FormCommit(catchAndFinally([FormSt EXCEPT !.abortLeft = -1], "AbortError"))
    /\ UNCHANGED formPhase

\* 10 s pass
FormTick ==
    /\ formPhase = "ready"
    /\ now < MaxTime
    /\ abortLeft # 0
    /\ FormCommit([FormSt EXCEPT !.now = @ + 1,
                                 !.abortLeft = IF @ > 0 THEN @ - 1 ELSE @])
    /\ UNCHANGED formPhase

FieldStates == {"empty", "invalid", "valid"}

NextForm ==
    \/ formInit
    \/ \E i \in DOMAIN Inputs : \E v \in FieldStates : EditField(i, v)
    \/ CheckBotcheck
    \/ ConnectionChanges
    \/ Submit
    \/ \E ok \in BOOLEAN : ResponseArrives(ok)
    \/ \E success \in BOOLEAN : BodyArrives(success)
    \/ ErrorBodyArrives
    \/ FetchFails
    \/ AbortFires
    \/ FormTick

SpecForm == InitForm /\ [][NextForm]_vars

-----------------------------------------------------------------------------
\* the form is ready and a submission has succeeded less than rateLimitMs ago
InRateLimitWindow == formPhase = "ready" /\ RateLimited(FormSt)

\* when the pending fetch was started: the abort timer was set with it
RequestIssuedAt == now - (FetchTimeout - abortLeft)

\* handleSubmit, whose result r is, has sent nothing and has left the stored
\* timestamp, the form's enabled state and the fields alone
SubmitRejected(r) ==
    /\ r.posts = posts
    /\ r.request = request
    /\ r.lastFormSubmit = lastFormSubmit
    /\ r.formEnabled = formEnabled
    /\ r.fields = fields

(* C20, as stated: a submit less than rateLimitMs after a success sends no
   POST, leaves the stored timestamp and the form's enabled state alone and
   shows the wait notification; and a fetch that is pending was started no
   less than rateLimitMs after the stored timestamp. *)
C20_RateLimitShowsWait ==
    /\ InRateLimitWindow =>
          LET r == handleSubmit(FormSt) IN
          SubmitRejected(r) /\ r.notification = "wait"
    /\ (request = "sent" /\ lastFormSubmit # <<>>) =>
          RequestIssuedAt - ParseInt(lastFormSubmit) >= RateLimitMs

(* C20, amended: a submit less than rateLimitMs after a success sends no
   POST and leaves the stored timestamp and the form's enabled state alone;
   it shows the wait notification when the browser is online and the
   no-connection notification when it is offline, since the connection is
   checked first.  A fetch that is pending was started no less than
   rateLimitMs after the stored timestamp. *)
C20_RateLimitNoPost ==
    /\ InRateLimitWindow =>
          LET r == handleSubmit(FormSt) IN
          /\ SubmitRejected(r)
          /\ r.notification = IF online THEN "wait" ELSE "offline"
    /\ (request = "sent" /\ lastFormSubmit # <<>>) =>
          RequestIssuedAt - ParseInt(lastFormSubmit) >= RateLimitMs

\* a submission has succeeded in this session and the next submit, 10 s or
\* 20 s later, was turned away
C20_Witness ==
    /\ posts = 1
    /\ lastFormSubmit # <<>>
    /\ ParseInt(lastFormSubmit) > 0
    /\ now > ParseInt(lastFormSubmit)
    /\ now - ParseInt(lastFormSubmit) < RateLimitMs
    /\ notification = "wait"
    /\ request = "none"
    /\ formEnabled

-----------------------------------------------------------------------------
\* a submit event now would pass the online, rate-limit, honeypot and
\* validation checks of handleSubmit
SubmitPasses ==
    /\ online
    /\ ~RateLimited(FormSt)
    /\ ~botcheck
    /\ ~hasEmptyFields(FormSt)
    /\ ~hasInvalidFields(FormSt)

\* what fetch and the code after it can throw
FetchErrors == {"AbortError", "Failed to fetch", "Server error", "Submission failed"}

\* the form can take a submit event
CanSubmit == formPhase = "ready" /\ formEnabled

(* C21: a submit event that passes the online, rate-limit, honeypot and
   validation checks issues exactly one POST, and one that does not pass
   issues none; no failure outcome (status not OK, success false, timeout
   abort, network error) issues a second POST; and while a POST is in flight
   the form is disabled, so that no submit event can start another. *)
C21_OnePostPerSubmit ==
    /\ CanSubmit =>
          LET r == handleSubmit(FormSt) IN
          IF SubmitPasses
          THEN r.posts = posts + 1 /\ r.request = "sent" /\ ~r.formEnabled
          ELSE r.posts = posts /\ r.request = "none"
    /\ request # "none" =>
          /\ ~formEnabled
          /\ \A error \in FetchErrors :
                LET r == catchAndFinally(FormSt, error) IN
                r.posts = posts /\ r.request = "none"
          /\ LET r == handleResult(FormSt, FALSE) IN
             r.posts = posts /\ r.request = "none"

\* a first request has failed, and the second submit's request is in flight
C21_Witness ==
    /\ posts = 2
    /\ request = "sent"
    /\ notification = "failed"
    /\ ~formEnabled

(* C25, as stated: a submit with the honeypot checkbox checked sends no POST,
   shows the success notification and leaves the stored timestamp, the fields
   and the form's enabled state alone. *)
C25_HoneypotShowsSuccess ==
    (CanSubmit /\ botcheck) =>
        LET r == handleSubmit(FormSt) IN
        SubmitRejected(r) /\ r.notification = "success"

(* C25, amended: a submit with the honeypot checkbox checked sends no POST
   and leaves the stored timestamp, the fields and the form's enabled state
   alone; it shows the success notification when the browser is online and
   no submission has succeeded in the last rateLimitMs, and otherwise the
   notification of the connection check or of the rate limit, which come
   first. *)
C25_HoneypotNoPost ==
    (CanSubmit /\ botcheck) =>
        LET r == handleSubmit(FormSt) IN
        /\ SubmitRejected(r)
        /\ r.notification = IF ~online THEN "offline"
                            ELSE IF RateLimited(FormSt) THEN "wait"
                            ELSE "success"

\* a bot has filled the form in, ticked the checkbox and submitted: it was told
\* of a success and nothing was sent
C25_Witness ==
    /\ botcheck
    /\ notification = "success"
    /\ posts = 0
    /\ request = "none"
    /\ lastFormSubmit = <<>>
    /\ formEnabled
    /\ online
    /\ \A i \in DOMAIN fields : fields[i] = "valid"

\* FORM_CONFIG.maxSubmitsPerSession
MaxSubmitsPerSession == 5

(* C26: no more than maxSubmitsPerSession POSTs are sent in a session, and
   once that many have been sent a further submit sends none. *)
C26_AtMostFivePosts ==
    /\ posts <= MaxSubmitsPerSession
    /\ (CanSubmit /\ posts >= MaxSubmitsPerSession) =>
          handleSubmit(FormSt).posts = posts

\* time passes and a timer that is due fires; the relay owes nothing
FormFair == WF_vars(FormTick) /\ WF_vars(AbortFires)

SpecFormLive == SpecForm /\ FormFair

(* C27: whenever the form is disabled it is enabled again later, whatever
   the relay does. *)
C27_EventuallyEnabled == (~formEnabled) ~> formEnabled

-----------------------------------------------------------------------------
(* ScrollManager: tie-breaks, dead links and the flag's timer *)

\* the section of the set ids that comes first in the document
FirstInDocumentOrder(secs, ids) ==
    secs[CHOOSE i \in DOMAIN secs :
            /\ secs[i] \in ids
            /\ \A j \in DOMAIN secs : secs[j] \in ids => i <= j]

(* C22: a processed observer callback after which several intersecting
   sections share the largest ratio, a ratio above zero, leaves activeSection
   the one of them that comes first in the document, whatever the order in
   which the sections entered the set. *)
C22_TieGoesToDocumentOrder ==
    (Running /\ ~isScrollingProgrammatically /\ Len(sections) > 0 /\ ~InitHashPending) =>
        \A entries \in Deliveries :
            LET r == observerCallback(St, entries)
                best == ArgMax(r.intersectingSections)
            IN  (/\ Cardinality(best) > 1
                 /\ \E i \in DOMAIN r.intersectingSections :
                       r.intersectingSections[i].ratio > 0)
                    => r.activeSection = FirstInDocumentOrder(sections, best)

\* the bound links whose href does not start with '#' or names no element
DeadLinks ==
    {href \in CombinedLinks :
        ~StartsWithHash(href) \/ ~GetElementById(sections, Substring1(href))}

(* C23: handleNavClick on a link whose href does not start with '#' or names
   no existing element changes nothing: activeSection, the link flags,
   isScrollingProgrammatically, the pending timers and the URL fragment stay
   as they were and no scroll is queued. *)
C23_DeadLinkChangesNothing ==
    Running => \A href \in DeadLinks : handleNavClick(St, href) = St

\* a page without sections, in the middle of a programmatic scroll: every
\* '#...' link of the navigation is dead there
C23_Witness ==
    /\ Running
    /\ Len(sections) = 0
    /\ TemplateHash(home) \in DeadLinks
    /\ isScrollingProgrammatically
    /\ ResetTimers(timers) # {}
    /\ inFrame = 0

(* C29: isScrollingProgrammatically is true only while a reset timer is
   pending, the one scrollTimeout names. *)
C29_FlagHasResetTimer ==
    isScrollingProgrammatically =>
        \E t \in ResetTimers(timers) : t.id = scrollTimeout

\* the flag is up, the scroll is done and the reset timer is due
C29_Witness ==
    /\ isScrollingProgrammatically
    /\ rafQueue = <<>>
    /\ ScrollTimers(timers) = {}
    /\ \E t \in ResetTimers(timers) : t.left = 0
    /\ activeSection = home

\* the ids the observer's Map holds
Tracked(m) == {m[i].id : i \in DOMAIN m}

(* C28: after every observer callback, processed or delivered during
   programmatic scrolling, the tracked set agrees with what the callback
   reported: a section it reported as intersecting is in the set, and one it
   reported as no longer intersecting is not. *)
C28_TrackedSetFollowsReports ==
    (Running /\ Len(sections) > 0 /\ ~InitHashPending) =>
        \A entries \in Deliveries :
            LET r == observerCallback(St, entries) IN
            \A i \in DOMAIN entries :
                entries[i].id \in Tracked(r.intersectingSections)
                    <=> entries[i].isIntersecting

\* handleNavClick or handleHashChange, whose result r is, has left
\* activeSection and the flag alone and has scheduled no timer and no scroll
Quiet(r) ==
    /\ r.activeSection = activeSection
    /\ r.isScrollingProgrammatically = isScrollingProgrammatically
    /\ r.timers = timers
    /\ r.rafQueue = rafQueue
    /\ r.lastScroll = lastScroll

(* C24: after cleanup no reset timer is pending, every listener init
   registered has been removed, and no click, hashchange or load event that
   is still dispatched to the component changes activeSection or the flag or
   schedules a timer or a scroll. *)
C24_CleanupStopsEverything ==
    phase = "cleaned" =>
        /\ ResetTimers(timers) = {}
        /\ Listeners = {}
        /\ \A href \in CombinedLinks :
              ClickBound(href) => Quiet(handleNavClick(St, href))
        /\ (Handles(Window, "hashchange") \/ Handles(Window, "load")) =>
              \A fragment \in Fragments :
                  Quiet(handleHashChange([St EXCEPT !.urlHash = fragment]))

-----------------------------------------------------------------------------
(* ProjectModal: the project dialog.  Time is counted in units of 100 ms; a
   frame is shorter than one unit.  The 50 ms focus timer of open changes
   nothing the model holds and is left out. *)

\* the delay of close's timer, 200 ms
UnlockDelay == 2

ModalSt ==
    [isOpen |-> isOpen,
     overlay |-> overlay,
     scrollLock |-> scrollLock,
     overlayActive |-> overlayActive,
     modalFrames |-> modalFrames,
     unlockTimers |-> unlockTimers,
     modalCalls |-> modalCalls]

ModalCommit(r) ==
    /\ isOpen' = r.isOpen
    /\ overlay' = r.overlay
    /\ scrollLock' = r.scrollLock
    /\ overlayActive' = r.overlayActive
    /\ modalFrames' = r.modalFrames
    /\ unlockTimers' = r.unlockTimers
    /\ modalCalls' = r.modalCalls
    /\ UNCHANGED <<scrollVars, formVars>>

\* ProjectModal.open for a project of the data module
open(st) ==
    [st EXCEPT !.overlay = TRUE,
               !.scrollLock = TRUE,
               !.modalFrames = Append(@, "addActive"),
               !.isOpen = TRUE,
               !.modalCalls = @ + 1]

\* ProjectModal.close
close(st) ==
    IF ~st.isOpen THEN st
    ELSE [st EXCEPT !.modalFrames = Append(@, "removeActive"),
                    !.isOpen = FALSE,
                    !.modalCalls = @ + 1]

\* the frame callback of open, and that of close, which starts the timer
runModalFrame(st, cb) ==
    IF cb = "addActive"
    THEN [st EXCEPT !.overlayActive = TRUE]
    ELSE [st EXCEPT !.overlayActive = FALSE,
                    !.unlockTimers = Append(@, UnlockDelay)]

\* the timer callback of close: the scroll lock is taken off
runUnlockTimer(st) ==
    [st EXCEPT !.scrollLock = FALSE, !.unlockTimers = Tail(@)]

InitModal ==
    /\ ScrollConstructed
    /\ FormConstructed
    /\ ModalConstructed

\* a click on a project card's link
OpenProject ==
    /\ modalCalls < MaxModalCalls
    /\ ModalCommit(open(ModalSt))

\* the Escape key, the close button or a click on the overlay
CloseRequested ==
    /\ isOpen
    /\ modalCalls < MaxModalCalls
    /\ ModalCommit(close(ModalSt))

\* the next animation frame callback
ModalFrame ==
    /\ modalFrames # <<>>
    /\ ModalCommit(runModalFrame([ModalSt EXCEPT !.modalFrames = Tail(@)],
                                 Head(modalFrames)))

\* the oldest timer is due and runs
UnlockTimerFires ==
    /\ unlockTimers # <<>>
    /\ Head(unlockTimers) = 0
    /\ ModalCommit(runUnlockTimer(ModalSt))

\* 100 ms pass: no frame is waiting and no timer is due
ModalTick ==
    /\ modalFrames = <<>>
    /\ unlockTimers # <<>>
    /\ \A i \in DOMAIN unlockTimers : unlockTimers[i] > 0
    /\ ModalCommit([ModalSt EXCEPT
           !.unlockTimers = [i \in DOMAIN unlockTimers |-> unlockTimers[i] - 1]])

NextModal ==
    \/ OpenProject
    \/ CloseRequested
    \/ ModalFrame
    \/ UnlockTimerFires
    \/ ModalTick

SpecModal == InitModal /\ [][NextModal]_vars

\* every deferred callback has run
ModalSettled == modalFrames = <<>> /\ unlockTimers = <<>>

(* C30: the dialog is open only with the scroll lock in place, and once
   every pending frame and timer callback has run an open dialog has the
   scroll lock and an active overlay. *)
C30_OpenModalKeepsScrollLock ==
    /\ isOpen => scrollLock
    /\ (ModalSettled /\ isOpen) => (scrollLock /\ overlayActive)

====
